---- MODULE Spec2Model ----
(***************************************************************************)
(* The undoable document state of the design editor: the reducer of        *)
(* src/state/reducer.ts (repeated verbatim in the two self-contained       *)
(* editors), the localStorage helpers, and the event handlers and effects  *)
(* of the three editor components.                                         *)
(***************************************************************************)
EXTENDS Integers, Sequences, FiniteSets, TLC

VARIABLES
    editor,             \* which editor component is mounted
    phase,              \* "start" (not mounted), "ready" (mounted), "crashed" (render threw)
    state,              \* useReducer state: past, present, future, selectedShapeId
    currentDesignName,  \* useState<string>("")
    storage,            \* localStorage: the parsed value of each key, or NoItem
    now,                \* the value of the latest Date.now()
    lastAction,         \* the action most recently handed to the reducer
    prevType,           \* the type of the action handed to it before that one
    saved,              \* per design name, the shapes last handed to a save under it
    events              \* how many events (user actions, page loads) have been handled

vars == <<editor, phase, state, currentDesignName, storage, now, lastAction,
          prevType, saved, events>>

\* ------------------------------------------------------------------ bounds
\* the length of the runs explored: every handler below counts as one event
MaxEvents == 6
\* the same for the runs of the reducer on its own
MaxDispatches == 5

\* ------------------------------------------------------------- JS values
\* A document slot holds a JavaScript value: an array of shapes, undefined,
\* or a non-array object (Object.prototype). Values are tagged so that they
\* can be compared.
Arr(s) == [tag |-> "array", elems |-> s]
Undefined == [tag |-> "undefined", elems |-> <<>>]
ObjectPrototype == [tag |-> "object", elems |-> <<>>]
IsArray(v) == v.tag = "array"
Truthy(v) == v.tag # "undefined"
\* JavaScript a || b on document values
OrElse(a, b) == IF Truthy(a) THEN a ELSE b

\* selectedShapeId: string | null
Null == "<null>"
\* JavaScript  id || null  : the empty string is falsy
OrNull(id) == IF id = "" \/ id = Null THEN Null ELSE id

\* ---------------------------------------------------------------- shapes
ShapeTypes == {"rectangle", "circle"}

Shape(id, type, zIndex) ==
    [id |-> id, type |-> type, x |-> 50, y |-> 50,
     width |-> 100, height |-> 100, zIndex |-> zIndex]

\* { ...shape, ...payload }
Merge(shape, payload) ==
    [k \in DOMAIN shape \cup DOMAIN payload |->
        IF k \in DOMAIN payload THEN payload[k] ELSE shape[k]]

\* --------------------------------------------------------------- reducer
initialState ==
    [past |-> <<>>, present |-> Arr(<<>>), future |-> <<>>, selectedShapeId |-> Null]

\* [...state.present] and state.present.map/filter throw a TypeError when
\* state.present is not an array
Throws(s, a) ==
    /\ a.type \in {"ADD_SHAPE", "UPDATE_SHAPE", "DELETE_SHAPE"}
    /\ ~IsArray(s.present)

\* ADD_SHAPE with a history that keeps the two latest snapshots only
ReduceAddShapeCapped(s, payload) ==
    [s EXCEPT !.past = IF Len(s.past) >= 2
                       THEN Append(Tail(s.past), s.present)
                       ELSE Append(s.past, s.present),
              !.present = Arr(Append(s.present.elems, payload)),
              !.future = <<>>]

\* ADD_SHAPE without  future: []
ReduceAddShapeKeepsFuture(s, payload) ==
    [s EXCEPT !.past = Append(s.past, s.present),
              !.present = Arr(Append(s.present.elems, payload))]

ReduceAddShape(s, payload) ==
    [s EXCEPT !.past = Append(s.past, s.present),
              !.present = Arr(Append(s.present.elems, payload)),
              !.future = <<>>]

\* the merge without the test of the id
UpdatedShapeAnyId(shape, payload) == Merge(shape, payload)

\* the spread the other way round, { ...action.payload, ...shape }
UpdatedShapeKeepsOld(shape, payload) ==
    IF shape.id = payload.id THEN Merge(payload, shape) ELSE shape

UpdatedShape(shape, payload) ==
    IF shape.id = payload.id THEN Merge(shape, payload) ELSE shape

ReduceUpdateShape(s, payload) ==
    [s EXCEPT !.past = Append(s.past, s.present),
              !.present = Arr([i \in 1..Len(s.present.elems) |->
                                  UpdatedShape(s.present.elems[i], payload)]),
              !.future = <<>>]

KeptShape(shape, payload) == shape.id # payload

\* DELETE_SHAPE that renumbers the zIndex of the shapes it keeps
ReduceDeleteShapeRenumbers(s, payload) ==
    LET kept == SelectSeq(s.present.elems, LAMBDA shape : KeptShape(shape, payload))
    IN [s EXCEPT !.past = Append(s.past, s.present),
                 !.present = Arr([i \in 1..Len(kept) |->
                                     [kept[i] EXCEPT !.zIndex = i]]),
                 !.future = <<>>]

\* DELETE_SHAPE that also drops the selection of the deleted shape
ReduceDeleteShapeDeselects(s, payload) ==
    [s EXCEPT !.past = Append(s.past, s.present),
              !.present = Arr(SelectSeq(s.present.elems,
                                        LAMBDA shape : KeptShape(shape, payload))),
              !.future = <<>>,
              !.selectedShapeId = IF s.selectedShapeId = payload THEN Null
                                  ELSE s.selectedShapeId]

ReduceDeleteShape(s, payload) ==
    [s EXCEPT !.past = Append(s.past, s.present),
              !.present = Arr(SelectSeq(s.present.elems,
                                        LAMBDA shape : KeptShape(shape, payload))),
              !.future = <<>>]

\* LOAD_SHAPES that starts a new history
ReduceLoadShapesResets(s, payload) ==
    [s EXCEPT !.present = payload, !.past = <<>>, !.future = <<>>]

ReduceLoadShapes(s, payload) == [s EXCEPT !.present = payload]

ReduceClearShapes(s) ==
    [s EXCEPT !.past = Append(s.past, s.present),
              !.present = Arr(<<>>),
              !.future = <<>>]

\* UNDO that puts present at the far end of future, [...future, present]
ReduceUndoAppendsFuture(s) ==
    IF Len(s.past) = 0 THEN s
    ELSE [past |-> SubSeq(s.past, 1, Len(s.past) - 1),
          present |-> OrElse(s.past[Len(s.past)], Arr(<<>>)),
          future |-> s.future \o <<s.present>>,
          selectedShapeId |-> OrNull(s.selectedShapeId)]

\* UNDO that takes the oldest snapshot, state.past[0]
ReduceUndoOldest(s) ==
    IF Len(s.past) = 0 THEN s
    ELSE [past |-> SubSeq(s.past, 1, Len(s.past) - 1),
          present |-> OrElse(s.past[1], Arr(<<>>)),
          future |-> <<s.present>> \o s.future,
          selectedShapeId |-> OrNull(s.selectedShapeId)]

ReduceUndo(s) ==
    IF Len(s.past) = 0 THEN s
    ELSE [past |-> SubSeq(s.past, 1, Len(s.past) - 1),
          present |-> OrElse(s.past[Len(s.past)], Arr(<<>>)),
          future |-> <<s.present>> \o s.future,
          selectedShapeId |-> OrNull(s.selectedShapeId)]

\* REDO without its test of state.future.length: state.future[0] is
\* undefined on an empty future
ReduceRedoUnguarded(s) ==
    [past |-> Append(s.past, s.present),
     present |-> IF Len(s.future) = 0 THEN Undefined ELSE s.future[1],
     future |-> IF Len(s.future) = 0 THEN <<>> ELSE Tail(s.future),
     selectedShapeId |-> OrNull(s.selectedShapeId)]

\* REDO that leaves the snapshot it took in future
ReduceRedoKeepsFuture(s) ==
    IF Len(s.future) = 0 THEN s
    ELSE [past |-> Append(s.past, s.present),
          present |-> s.future[1],
          future |-> s.future,
          selectedShapeId |-> OrNull(s.selectedShapeId)]

ReduceRedo(s) ==
    IF Len(s.future) = 0 THEN s
    ELSE [past |-> Append(s.past, s.present),
          present |-> s.future[1],
          future |-> Tail(s.future),
          selectedShapeId |-> OrNull(s.selectedShapeId)]

\* SELECT_SHAPE that counts as an edit: it pushes present and empties future
ReduceSelectShapePushes(s, payload) ==
    [s EXCEPT !.past = Append(s.past, s.present),
              !.future = <<>>,
              !.selectedShapeId = payload]

ReduceSelectShape(s, payload) == [s EXCEPT !.selectedShapeId = payload]

reducer(s, a) ==
    CASE a.type = "ADD_SHAPE" -> ReduceAddShape(s, a.payload)
      [] a.type = "UPDATE_SHAPE" -> ReduceUpdateShape(s, a.payload)
      [] a.type = "DELETE_SHAPE" -> ReduceDeleteShape(s, a.payload)
      [] a.type = "LOAD_SHAPES" -> ReduceLoadShapes(s, a.payload)
      [] a.type = "CLEAR_SHAPES" -> ReduceClearShapes(s)
      [] a.type = "UNDO" -> ReduceUndo(s)
      [] a.type = "REDO" -> ReduceRedo(s)
      [] a.type = "SELECT_SHAPE" -> ReduceSelectShape(s, a.payload)
      [] OTHER -> s

\* the action objects
AddShapeAction(shape) == [type |-> "ADD_SHAPE", payload |-> shape]
UpdateShapeAction(p) == [type |-> "UPDATE_SHAPE", payload |-> p]
DeleteShapeAction(id) == [type |-> "DELETE_SHAPE", payload |-> id]
LoadShapesAction(doc) == [type |-> "LOAD_SHAPES", payload |-> doc]
ClearShapesAction == [type |-> "CLEAR_SHAPES"]
UndoAction == [type |-> "UNDO"]
RedoAction == [type |-> "REDO"]
SelectShapeAction(id) == [type |-> "SELECT_SHAPE", payload |-> id]
NoAction == [type |-> "@@INIT"]

\* ---------------------------------------------------------- localStorage
\* storage.designs is the item "designs": absent (getItem gives null) or the
\* JSON text of an object, kept as its own properties in insertion order
\* (Object.keys order for names that are not integers).
\* storage.shapes is the item "shapes" of the single-document editor.
NoItem == [tag |-> "null", elems |-> <<>>]
NoDesigns == [exists |-> FALSE, entries |-> <<>>]
Designs(entries) == [exists |-> TRUE, entries |-> entries]

DesignNames == {"a", "b", "__proto__"}

\* JSON.parse(localStorage.getItem("designs") || "{}")
ParseDesigns(stor) == stor.designs.entries

HasOwn(obj, key) == \E i \in 1..Len(obj) : obj[i].name = key
OwnIndex(obj, key) == CHOOSE i \in 1..Len(obj) : obj[i].name = key

\* obj[key] on an object made by JSON.parse: an own property, else what
\* Object.prototype gives ("__proto__" is Object.prototype itself), else
\* undefined
ObjectGet(obj, key) ==
    IF HasOwn(obj, key) THEN obj[OwnIndex(obj, key)].shapes
    ELSE IF key = "__proto__" THEN ObjectPrototype
    ELSE Undefined

\* obj[key] = value: "__proto__" is the accessor of Object.prototype, which
\* sets the prototype and creates no own property
ObjectSet(obj, key, value) ==
    IF key = "__proto__" THEN obj
    ELSE IF HasOwn(obj, key)
         THEN [obj EXCEPT ![OwnIndex(obj, key)].shapes = value]
         ELSE Append(obj, [name |-> key, shapes |-> value])

\* JSON.stringify of the designs object: a property whose value is undefined
\* is left out
StringifyDesigns(obj) ==
    Designs(SelectSeq(obj, LAMBDA e : e.shapes.tag # "undefined"))

\* Object.keys(designsObj)[0]; "" stands for undefined (both are falsy and
\* neither is an own property)
FirstKey(obj) == IF Len(obj) = 0 THEN "" ELSE obj[1].name

saveToLocalStorage(stor, designName, shapes) ==
    [stor EXCEPT !.designs =
        StringifyDesigns(ObjectSet(ParseDesigns(stor), designName, shapes))]

loadFromLocalStorage(stor, designName) ==
    OrElse(ObjectGet(ParseDesigns(stor), designName), Arr(<<>>))

\* the inline editor reads savedDesigns[designName] without a default
LoadInline(stor, designName) == ObjectGet(ParseDesigns(stor), designName)

\* JSON.stringify(state.present) under "shapes"; JSON.parse(savedShapes)
StringifyShapes(doc) == IF doc.tag = "undefined" THEN NoItem ELSE doc

\* ----------------------------------------------------------- the editors
\* "modular": src/components/DesignEditor.tsx (utils, Canvas, state/reducer)
\* "inline":  src/components/DesignEditor/DesignEditor.tsx
\* "single":  src/app/page.tsx, one document under the key "shapes"
Editors == {"modular", "inline", "single"}
Named(ed) == ed \in {"modular", "inline"}

NotSaved == [tag |-> "none", elems |-> <<>>]

\* what the pointer can report at the end of a drag or a resize
DragStops == {[x |-> 60, y |-> 70]}
ResizeStops == {[width |-> 120, height |-> 80, x |-> 40, y |-> 50]}
Min(a, b) == IF a <= b THEN a ELSE b

\* whether the reducer returned a present that is a new array object, which
\* is what the dependency list [state.present, ...] of the effects compares
PresentChanged(s, a) ==
    \/ a.type \in {"ADD_SHAPE", "UPDATE_SHAPE", "DELETE_SHAPE",
                   "LOAD_SHAPES", "CLEAR_SHAPES"}
    \/ a.type = "UNDO" /\ Len(s.past) > 0
    \/ a.type = "REDO" /\ Len(s.future) > 0

\* the persist effect without  if (currentDesignName)
PersistEffectUnnamed(ed, name, s, stor) ==
    IF ed = "single"
    THEN [stor EXCEPT !.shapes = StringifyShapes(s.present)]
    ELSE saveToLocalStorage(stor, name, s.present)

\* useEffect(..., [state.present, currentDesignName]) / [state.present]
PersistEffect(ed, name, s, stor) ==
    IF ed = "single"
    THEN [stor EXCEPT !.shapes = StringifyShapes(s.present)]
    ELSE IF name # "" THEN saveToLocalStorage(stor, name, s.present) ELSE stor

PersistSaved(ed, name, s, sv) ==
    IF Named(ed) /\ name # "" THEN [sv EXCEPT ![name] = s.present] ELSE sv

\* The render that follows a handler: state.present.map(...) throws when
\* present is no array and the component is gone; otherwise the persist
\* effect runs if one of its dependencies changed.
Render(s, name, changed, stor, sv) ==
    /\ state' = s
    /\ currentDesignName' = name
    /\ IF ~IsArray(s.present)
       THEN /\ phase' = "crashed"
            /\ storage' = stor
            /\ saved' = sv
       ELSE /\ phase' = "ready"
            /\ storage' = IF changed THEN PersistEffect(editor, name, s, stor) ELSE stor
            /\ saved' = IF changed THEN PersistSaved(editor, name, s, sv) ELSE sv
    /\ UNCHANGED editor

\* the record of what was handed to the reducer
Dispatched(a) ==
    /\ lastAction' = a
    /\ prevType' = lastAction.type

\* one dispatch from a handler that leaves currentDesignName alone
Dispatch(a) ==
    /\ ~Throws(state, a)
    /\ Dispatched(a)
    /\ Render(reducer(state, a), currentDesignName,
              PresentChanged(state, a), storage, saved)

\* every handler takes one event of the run
Event ==
    /\ events < MaxEvents
    /\ events' = events + 1

Ready == phase = "ready" /\ Event

\* the mount with the two effects of src/app/page.tsx in the other order:
\* the persist effect writes the empty present before the load effect reads
MountPersistsFirst ==
    /\ phase = "start"
    /\ Event
    /\ now' = now
    /\ IF Named(editor)
       THEN IF storage.designs.exists
            THEN LET designsObj == ParseDesigns(storage)
                     latestDesignName == FirstKey(designsObj)
                     a == LoadShapesAction(ObjectGet(designsObj, latestDesignName))
                 IN /\ Dispatched(a)
                    /\ Render(reducer(state, a), latestDesignName, TRUE, storage, saved)
            ELSE /\ phase' = "ready"
                 /\ UNCHANGED <<editor, state, currentDesignName, storage,
                                lastAction, prevType, saved>>
       ELSE LET first == PersistEffect(editor, "", state, storage)
                savedShapes == first.shapes
            IN IF savedShapes.tag # "null"
               THEN LET a == LoadShapesAction(savedShapes)
                    IN /\ Dispatched(a)
                       /\ Render(reducer(state, a), "", TRUE, first, saved)
               ELSE /\ phase' = "ready"
                    /\ storage' = first
                    /\ UNCHANGED <<editor, state, currentDesignName,
                                   lastAction, prevType, saved>>

\* the mount-time effects and the render they cause
Mount ==
    /\ phase = "start"
    /\ Event
    /\ now' = now
    /\ IF Named(editor)
       THEN IF storage.designs.exists
            THEN LET designsObj == ParseDesigns(storage)
                     latestDesignName == FirstKey(designsObj)
                     a == LoadShapesAction(ObjectGet(designsObj, latestDesignName))
                 IN /\ Dispatched(a)
                    /\ Render(reducer(state, a), latestDesignName, TRUE, storage, saved)
            ELSE /\ phase' = "ready"
                 /\ UNCHANGED <<editor, state, currentDesignName, storage,
                                lastAction, prevType, saved>>
       ELSE LET savedShapes == storage.shapes
                \* the persist effect of the first render writes the empty present
                first == PersistEffect(editor, "", state, storage)
            IN IF savedShapes.tag # "null"
               THEN LET a == LoadShapesAction(savedShapes)
                    IN /\ Dispatched(a)
                       /\ Render(reducer(state, a), "", TRUE, first, saved)
               ELSE /\ phase' = "ready"
                    /\ storage' = first
                    /\ UNCHANGED <<editor, state, currentDesignName,
                                   lastAction, prevType, saved>>

\* generateShape (zIndex: 1) and the inline addShape (zIndex: length + 1)
generateShape(type, t) == Shape(ToString(t), type, 1)
InlineShape(type, t) == Shape(ToString(t), type, Len(state.present.elems) + 1)

\* elapsed: the milliseconds Date.now() has advanced since it was last read
Elapsed == {0, 1}

addShape(type, elapsed) ==
    /\ Ready
    /\ now' = now + elapsed
    /\ Dispatch(AddShapeAction(IF editor = "modular"
                               THEN generateShape(type, now')
                               ELSE InlineShape(type, now')))

onDragStop(i, d) ==
    /\ Ready
    /\ now' = now
    /\ Dispatch(UpdateShapeAction(
           [id |-> state.present.elems[i].id, x |-> d.x, y |-> d.y]))

ResizePayload(shape, r) ==
    IF Named(editor) /\ shape.type = "circle"
    THEN [id |-> shape.id, width |-> Min(r.width, r.height),
          height |-> Min(r.width, r.height), x |-> r.x, y |-> r.y]
    ELSE [id |-> shape.id, width |-> r.width, height |-> r.height,
          x |-> r.x, y |-> r.y]

onResizeStop(i, r) ==
    /\ Ready
    /\ now' = now
    /\ Dispatch(UpdateShapeAction(ResizePayload(state.present.elems[i], r)))

\* the X button; in the single-document editor the click also reaches the
\* onClick of the enclosing div, which selects the shape
deleteClick(i) ==
    /\ Ready
    /\ now' = now
    /\ LET id == state.present.elems[i].id
           del == DeleteShapeAction(id)
           sel == SelectShapeAction(id)
       IN IF editor = "single"
          THEN /\ lastAction' = sel
               /\ prevType' = del.type
               /\ Render(reducer(reducer(state, del), sel), currentDesignName,
                         TRUE, storage, saved)
          ELSE Dispatch(del)

selectClick(i) ==
    /\ Ready
    /\ editor = "single"
    /\ now' = now
    /\ Dispatch(SelectShapeAction(state.present.elems[i].id))

undo == Ready /\ now' = now /\ Dispatch(UndoAction)

redo == Ready /\ now' = now /\ Dispatch(RedoAction)

clearCanvas ==
    /\ Ready
    /\ editor = "inline"
    /\ now' = now
    /\ Dispatch(ClearShapesAction)

createNewDesign ==
    /\ Ready
    /\ Named(editor)
    /\ now' = now
    /\ Dispatched(ClearShapesAction)
    /\ Render(reducer(state, ClearShapesAction), "", TRUE, storage, saved)

\* answer: what prompt() returns ("" for an empty answer or a cancel)
saveDesign(answer) ==
    /\ Ready
    /\ Named(editor)
    /\ now' = now
    /\ IF currentDesignName # ""
       THEN /\ answer = ""
            /\ storage' = saveToLocalStorage(storage, currentDesignName, state.present)
            /\ saved' = [saved EXCEPT ![currentDesignName] = state.present]
            /\ UNCHANGED <<editor, phase, state, currentDesignName, lastAction,
                           prevType>>
       ELSE IF answer # ""
            THEN /\ UNCHANGED <<lastAction, prevType>>
                 /\ Render(state, answer, TRUE,
                           saveToLocalStorage(storage, answer, state.present),
                           [saved EXCEPT ![answer] = state.present])
            ELSE UNCHANGED <<editor, phase, state, currentDesignName, storage,
                             lastAction, prevType, saved>>

\* useState designs: set from Object.keys of the stored object at mount and
\* after every write, so it is the stored object's own keys
designs == {ParseDesigns(storage)[i].name : i \in 1..Len(ParseDesigns(storage))}

\* The inline editor calls loadDesign from the onChange of a <select> whose
\* options are "" and the names in designs; the modular editor hands
\* loadDesign to ShapeControls, which may call it with any name.
loadDesign(designName) ==
    /\ Ready
    /\ Named(editor)
    /\ editor = "inline" =>
          designName \in designs \cup {""} /\ designName # currentDesignName
    /\ now' = now
    /\ LET shapes == IF editor = "modular"
                     THEN loadFromLocalStorage(storage, designName)
                     ELSE LoadInline(storage, designName)
           a == LoadShapesAction(shapes)
       IN /\ Dispatched(a)
          /\ Render(reducer(state, a), designName, TRUE, storage, saved)

\* the page is loaded again: the component state is gone, localStorage stays
Reload ==
    /\ phase \in {"ready", "crashed"}
    /\ Event
    /\ phase' = "start"
    /\ state' = initialState
    /\ currentDesignName' = ""
    /\ lastAction' = NoAction
    /\ prevType' = NoAction.type
    /\ UNCHANGED <<editor, storage, now, saved>>

InitOf(ed) ==
    /\ editor = ed
    /\ phase = "start"
    /\ state = initialState
    /\ currentDesignName = ""
    /\ storage = [designs |-> NoDesigns, shapes |-> NoItem]
    /\ now = 1
    /\ lastAction = NoAction
    /\ prevType = NoAction.type
    /\ saved = [n \in DesignNames |-> NotSaved]
    /\ events = 0

Shapes == 1..Len(state.present.elems)

\* what the user and the clock can do to every editor
Common ==
    \/ Mount
    \/ \E type \in ShapeTypes, elapsed \in Elapsed : addShape(type, elapsed)
    \/ \E i \in Shapes, d \in DragStops : onDragStop(i, d)
    \/ \E i \in Shapes, r \in ResizeStops : onResizeStop(i, r)
    \/ \E i \in Shapes : deleteClick(i)
    \/ undo
    \/ redo
    \/ Reload

\* the toolbar of the editors that keep named designs
Toolbar ==
    \/ createNewDesign
    \/ \E answer \in DesignNames \cup {""} : saveDesign(answer)
    \/ \E designName \in DesignNames \cup {""} : loadDesign(designName)

\* src/components/DesignEditor.tsx
Init == InitOf("modular")
Next == Common \/ Toolbar
Spec == Init /\ [][Next]_vars

\* src/components/DesignEditor/DesignEditor.tsx
InitInline == InitOf("inline")
NextInline == Common \/ Toolbar \/ clearCanvas
SpecInline == InitInline /\ [][NextInline]_vars

\* src/app/page.tsx
InitSingle == InitOf("single")
NextSingle == Common \/ \E i \in Shapes : selectClick(i)
SpecSingle == InitSingle /\ [][NextSingle]_vars

\* ------------------------------------------------- the reducer on its own
\* reducer is an export of src/state/reducer.ts: any caller may hand it any
\* action of the Action type (and, untyped, an action of another type), also
\* ones the three editors never dispatch, such as an id that no shape has.
Ids == {"1", "2"}
AddInputs == {Shape("1", "rectangle", 1), Shape("2", "circle", 1)}
UpdateInputs ==
    {[id |-> id, x |-> d.x, y |-> d.y] : id \in Ids, d \in DragStops}
    \cup {[id |-> id, width |-> r.width, height |-> r.height, x |-> r.x, y |-> r.y] :
             id \in Ids, r \in ResizeStops}
LoadInputs == {Arr(<<>>), Arr(<<Shape("2", "circle", 3)>>)}
SelectInputs == {"1", "", Null}
UnknownAction == [type |-> "RESET"]

Reduce(a) ==
    /\ events < MaxDispatches
    /\ events' = events + 1
    /\ state' = reducer(state, a)
    /\ Dispatched(a)
    /\ UNCHANGED <<editor, phase, currentDesignName, storage, now, saved>>

ADD_SHAPE == \E shape \in AddInputs : Reduce(AddShapeAction(shape))
UPDATE_SHAPE == \E p \in UpdateInputs : Reduce(UpdateShapeAction(p))
DELETE_SHAPE == \E id \in Ids : Reduce(DeleteShapeAction(id))
LOAD_SHAPES == \E doc \in LoadInputs : Reduce(LoadShapesAction(doc))
CLEAR_SHAPES == Reduce(ClearShapesAction)
UNDO == Reduce(UndoAction)
REDO == Reduce(RedoAction)
SELECT_SHAPE == \E id \in SelectInputs : Reduce(SelectShapeAction(id))
Unknown == Reduce(UnknownAction)

InitReducer ==
    /\ editor = "modular"
    /\ phase = "ready"
    /\ state = initialState
    /\ currentDesignName = ""
    /\ storage = [designs |-> NoDesigns, shapes |-> NoItem]
    /\ now = 1
    /\ lastAction = NoAction
    /\ prevType = NoAction.type
    /\ saved = [n \in DesignNames |-> NotSaved]
    /\ events = 0

NextReducer ==
    \/ ADD_SHAPE
    \/ UPDATE_SHAPE
    \/ DELETE_SHAPE
    \/ LOAD_SHAPES
    \/ CLEAR_SHAPES
    \/ UNDO
    \/ REDO
    \/ SELECT_SHAPE
    \/ Unknown

SpecReducer == InitReducer /\ [][NextReducer]_vars

\* ================================================================ claims
PushTypes == {"ADD_SHAPE", "UPDATE_SHAPE", "DELETE_SHAPE", "CLEAR_SHAPES"}

PushInputs ==
    {AddShapeAction(shape) : shape \in AddInputs}
    \cup {UpdateShapeAction(p) : p \in UpdateInputs}
    \cup {DeleteShapeAction(id) : id \in Ids}
    \cup {ClearShapesAction}

HasId(doc, id) == \E i \in 1..Len(doc.elems) : doc.elems[i].id = id

\* C1: from every reachable state, a history-pushing command (AddShape,
\* UpdateShape, DeleteShape, ClearShapes) followed by Undo gives back exactly
\* the present the state had.
C1_UndoRestoresPresent ==
    \A c \in PushInputs :
        reducer(reducer(state, c), UndoAction).present = state.present

\* a push that changed the document has just been undone
C1_Witness ==
    /\ lastAction.type = "UNDO"
    /\ prevType \in PushTypes
    /\ Len(state.future) > 0
    /\ state.future[1] # state.present
    /\ Len(state.present.elems) > 0

\* C2: from every reachable state with a non-empty past, Undo followed by
\* Redo gives back the same past, present and future.
C2_RedoRestoresState ==
    Len(state.past) > 0 =>
        LET r == reducer(reducer(state, UndoAction), RedoAction)
        IN /\ r.past = state.past
           /\ r.present = state.present
           /\ r.future = state.future

\* an effective Undo has just been redone, with more left to redo
C2_Witness ==
    /\ lastAction.type = "REDO"
    /\ prevType = "UNDO"
    /\ Len(state.past) > 0
    /\ Len(state.future) > 0
    /\ Len(state.present.elems) > 0

\* C3: an edit command issued after an Undo leaves future empty, and Redo
\* then returns the state it was given (so no number of Redos brings an
\* undone snapshot back): both for the edit that has just been made and for
\* every edit that could follow an Undo now.
C3_EditAfterUndoDiscardsFuture ==
    /\ lastAction.type \in PushTypes =>
          /\ state.future = <<>>
          /\ reducer(state, RedoAction) = state
    /\ \A e \in PushInputs :
          LET s1 == reducer(reducer(state, UndoAction), e)
          IN reducer(s1, RedoAction) = [s1 EXCEPT !.future = <<>>]

\* an edit has followed an Undo that undid something (the past was at least
\* two deep before the Undo, or it could not be two deep now)
C3_Witness ==
    /\ lastAction.type \in PushTypes
    /\ prevType = "UNDO"
    /\ Len(state.past) >= 2
    /\ state.future = <<>>

\* C4: Undo on an empty past and Redo on an empty future return the state
\* they were given: past, present, future and selectedShapeId are unchanged.
C4_EmptyStackNoOp ==
    [][/\ (lastAction'.type = "UNDO" /\ Len(state.past) = 0) => state' = state
       /\ (lastAction'.type = "REDO" /\ Len(state.future) = 0) => state' = state]_vars

\* Undo has just run on an empty past, right after a Redo on an empty future,
\* with a document and the empty string as the selection
C4_Witness ==
    /\ lastAction.type = "UNDO"
    /\ prevType = "REDO"
    /\ Len(state.past) = 0
    /\ Len(state.future) = 0
    /\ state.selectedShapeId = ""
    /\ Len(state.present.elems) > 0

\* C5: UpdateShape or DeleteShape with an id that no shape of present has
\* leaves present as it was, appends that present to past and empties
\* future.
C5_UnknownIdStillPushes ==
    [][(/\ lastAction'.type \in {"UPDATE_SHAPE", "DELETE_SHAPE"}
        /\ ~HasId(state.present,
                  IF lastAction'.type = "UPDATE_SHAPE"
                  THEN lastAction'.payload.id ELSE lastAction'.payload))
       => /\ state'.present = state.present
          /\ state'.past = Append(state.past, state.present)
          /\ state'.future = <<>>]_vars

\* an update of an id that is not in a non-empty present has just run, over a
\* non-empty future that it emptied (it followed an Undo)
C5_Witness ==
    /\ lastAction.type = "UPDATE_SHAPE"
    /\ prevType = "UNDO"
    /\ ~HasId(state.present, lastAction.payload.id)
    /\ Len(state.present.elems) > 0
    /\ Len(state.past) >= 2
    /\ state.past[Len(state.past)] = state.present

\* C6: LoadShapes(shapes) makes present the given shapes and leaves past,
\* future and selectedShapeId as they were.
C6_LoadShapesFrame ==
    [][lastAction'.type = "LOAD_SHAPES"
       => /\ state'.present = lastAction'.payload
          /\ state'.past = state.past
          /\ state'.future = state.future
          /\ state'.selectedShapeId = state.selectedShapeId]_vars

\* a load has just replaced the document while both stacks held snapshots
\* and a shape was selected
C6_Witness ==
    /\ lastAction.type = "LOAD_SHAPES"
    /\ state.present = lastAction.payload
    /\ Len(state.past) > 0
    /\ Len(state.future) > 0
    /\ state.selectedShapeId \in Ids

\* C7: right after a persisted design has been loaded into the editor (at
\* startup or by loadDesign), past and future are both empty. (A loaded
\* document that has shapes was read from storage: the default is empty.)
C7_StacksEmptyAfterLoad ==
    (/\ lastAction.type = "LOAD_SHAPES"
     /\ IsArray(lastAction.payload)
     /\ Len(lastAction.payload.elems) > 0)
    => state.past = <<>> /\ state.future = <<>>

WellFormed(s) ==
    /\ IsArray(s.present)
    /\ \A i \in 1..Len(s.past) : IsArray(s.past[i])
    /\ \A i \in 1..Len(s.future) : IsArray(s.future[i])

ReducerInputs ==
    PushInputs
    \cup {LoadShapesAction(doc) : doc \in LoadInputs}
    \cup {SelectShapeAction(id) : id \in SelectInputs}
    \cup {UndoAction, RedoAction, UnknownAction}

\* C8: in every reachable state of the editor the reducer state is well
\* formed (present an array of shapes, past and future arrays of such
\* arrays), and the reducer takes every command from it without throwing,
\* to a well-formed state, an unknown command to the same state.
C8_ReducerNeverFails ==
    /\ WellFormed(state)
    /\ \A a \in ReducerInputs :
          /\ ~Throws(state, a)
          /\ WellFormed(reducer(state, a))
    /\ reducer(state, UnknownAction) = state

\* C9: the ids of the shapes in present are pairwise distinct.
C9_IdsDistinct ==
    IsArray(state.present) =>
        \A i, j \in 1..Len(state.present.elems) :
            i # j => state.present.elems[i].id # state.present.elems[j].id

\* C10: loading a design name gives the present that was last saved under
\* that name, whatever else was stored or edited in between.
C10_SaveLoadRoundTrip ==
    [][\A n \in DesignNames :
          (loadDesign(n) /\ saved[n] # NotSaved) => state'.present = saved[n]]_vars

\* C11: loadDesign of a name that the stored designs do not hold makes
\* present the empty array of shapes.
C11_UnknownNameLoadsEmpty ==
    [][\A n \in DesignNames \cup {""} :
          (loadDesign(n) /\ ~HasOwn(ParseDesigns(storage), n))
          => state'.present = Arr(<<>>)]_vars

\* C12: while the editor is up with a current design name, the shapes stored
\* under that name are the present.
C12_StoredEqualsPresent ==
    (phase = "ready" /\ currentDesignName # "")
    => ObjectGet(ParseDesigns(storage), currentDesignName) = state.present

\* C13: DeleteShape of the selected shape's id leaves selectedShapeId as it
\* was and leaves no shape with that id in present, so the selection then
\* names no shape.
C13_DeleteSelectedDangles ==
    [][(/\ lastAction'.type = "DELETE_SHAPE"
        /\ lastAction'.payload = state.selectedShapeId)
       => /\ state'.selectedShapeId = state.selectedShapeId
          /\ ~HasId(state'.present, state'.selectedShapeId)]_vars

\* the selected shape, which was in the document, has just been deleted
C13_Witness ==
    /\ lastAction.type = "DELETE_SHAPE"
    /\ lastAction.payload = state.selectedShapeId
    /\ Len(state.past) > 0
    /\ HasId(state.past[Len(state.past)], lastAction.payload)
    /\ ~HasId(state.present, state.selectedShapeId)

\* C14: SelectShape sets selectedShapeId to its argument (an id or none) and
\* leaves present, past and future as they were.
C14_SelectShapeFrame ==
    [][lastAction'.type = "SELECT_SHAPE"
       => /\ state'.selectedShapeId = lastAction'.payload
          /\ state'.present = state.present
          /\ state'.past = state.past
          /\ state'.future = state.future]_vars

\* a shape has just been selected while both stacks held snapshots
C14_Witness ==
    /\ lastAction.type = "SELECT_SHAPE"
    /\ state.selectedShapeId = lastAction.payload
    /\ HasId(state.present, state.selectedShapeId)
    /\ Len(state.past) > 0
    /\ Len(state.future) > 0

\* C15: the shape that an add-rectangle or add-circle click creates has
\* zIndex equal to the number of shapes in present at that moment plus one.
C15_ZIndexIsCountPlusOne ==
    [][\A type \in ShapeTypes, elapsed \in Elapsed :
          addShape(type, elapsed)
          => /\ lastAction'.payload.type = type
             /\ lastAction'.payload.zIndex = Len(state.present.elems) + 1]_vars

\* C16: UpdateShape(id, attrs) keeps the length and the order of present;
\* every shape with that id has each field of attrs at the given value and
\* each other field as before; every shape with another id is as before.
C16_UpdateIsShallowMerge ==
    [][lastAction'.type = "UPDATE_SHAPE"
       => LET attrs == lastAction'.payload
              old == state.present.elems
              new == state'.present.elems
          IN /\ Len(new) = Len(old)
             /\ \A i \in 1..Len(old) :
                   IF old[i].id = attrs.id
                   THEN /\ DOMAIN new[i] = DOMAIN old[i] \cup DOMAIN attrs
                        /\ \A k \in DOMAIN attrs : new[i][k] = attrs[k]
                        /\ \A k \in DOMAIN old[i] \ DOMAIN attrs :
                              new[i][k] = old[i][k]
                   ELSE new[i] = old[i]]_vars

\* a shape has just been moved or resized next to a shape with another id,
\* and its type and zIndex are what they were
C16_Witness ==
    /\ lastAction.type = "UPDATE_SHAPE"
    /\ Len(state.past) > 0
    /\ LET old == state.past[Len(state.past)].elems
           new == state.present.elems
       IN /\ Len(new) = Len(old)
          /\ \E i, j \in 1..Len(new) :
                /\ new[i].id = lastAction.payload.id
                /\ new[i].x = lastAction.payload.x
                /\ new[i] # old[i]
                /\ new[i].type = old[i].type
                /\ new[i].zIndex = old[i].zIndex
                /\ new[j].id # lastAction.payload.id
                /\ new[j] = old[j]

\* C17: after DeleteShape(id) present has no shape with that id, and the
\* shapes with another id are all there, each as it was (zIndex included),
\* in the order they had: the n-th of them before is the n-th shape after.
C17_DeleteKeepsTheOthers ==
    [][lastAction'.type = "DELETE_SHAPE"
       => LET id == lastAction'.payload
              old == state.present.elems
              new == state'.present.elems
              others(j) == {k \in 1..j : old[k].id # id}
          IN /\ ~HasId(state'.present, id)
             /\ Len(new) = Cardinality(others(Len(old)))
             /\ \A j \in others(Len(old)) :
                   new[Cardinality(others(j))] = old[j]]_vars

\* a shape has just been deleted from between two others that differ, one
\* of them with a zIndex that is not its place in what is left
C17_Witness ==
    /\ lastAction.type = "DELETE_SHAPE"
    /\ Len(state.past) > 0
    /\ LET old == state.past[Len(state.past)].elems
           new == state.present.elems
       IN /\ Len(old) = 3
          /\ old[2].id = lastAction.payload
          /\ new = <<old[1], old[3]>>
          /\ new[1] # new[2]
          /\ new[1].zIndex # 1

\* the documents of a state in time order: past oldest first, then present,
\* then future with the most recently undone first
Timeline(s) == s.past \o <<s.present>> \o s.future

\* C18: an Undo on a non-empty past and a Redo on a non-empty future leave
\* the timeline past ++ [present] ++ future the same sequence of documents;
\* Undo makes past one shorter and future one longer, Redo the reverse.
C18_OneLinearTimeline ==
    [][/\ (lastAction'.type = "UNDO" /\ Len(state.past) > 0)
          => /\ Timeline(state') = Timeline(state)
             /\ Len(state'.past) = Len(state.past) - 1
             /\ Len(state'.future) = Len(state.future) + 1
       /\ (lastAction'.type = "REDO" /\ Len(state.future) > 0)
          => /\ Timeline(state') = Timeline(state)
             /\ Len(state'.past) = Len(state.past) + 1
             /\ Len(state'.future) = Len(state.future) - 1]_vars

\* the cursor has gone back twice and forward once, and stands between
\* documents that differ from the one it is on
C18_Witness ==
    /\ lastAction.type = "REDO"
    /\ prevType = "UNDO"
    /\ Len(state.past) > 0
    /\ Len(state.future) > 0
    /\ state.past[Len(state.past)] # state.present
    /\ state.future[1] # state.present
    /\ state.future[1] # state.past[Len(state.past)]

\* the states a sequence of commands goes through, the starting state left out
RECURSIVE Trail(_, _)
Trail(s, cmds) ==
    IF cmds = <<>> THEN <<>>
    ELSE LET s1 == reducer(s, Head(cmds)) IN <<s1>> \o Trail(s1, Tail(cmds))

\* runs of one to four history-pushing commands, all four kinds among them
PushRuns ==
    LET add1 == AddShapeAction(Shape("1", "rectangle", 1))
        add2 == AddShapeAction(Shape("2", "circle", 1))
        move1 == UpdateShapeAction([id |-> "1", x |-> 60, y |-> 70])
        del1 == DeleteShapeAction("1")
        del2 == DeleteShapeAction("2")
    IN {<<add1>>,
        <<del2, add1>>,
        <<add1, move1, del1>>,
        <<add2, ClearShapesAction, add1>>,
        <<add1, add2, move1, del1>>}

\* C19: from every reachable state s, after a run of n history-pushing
\* commands past is n longer than in s; n Undos then each find a non-empty
\* past and lead to the past and the present of s, with the n documents the
\* run produced in future, the first of them first.
C19_HistoryNotCapped ==
    \A run \in PushRuns :
        LET n == Len(run)
            pushes == Trail(state, run)
            undos == Trail(pushes[n], [i \in 1..n |-> UndoAction])
        IN /\ Len(pushes[n].past) = Len(state.past) + n
           /\ Len(pushes[n].past) > 0
           /\ \A k \in 1..(n - 1) : Len(undos[k].past) > 0
           /\ undos[n].past = state.past
           /\ undos[n].present = state.present
           /\ undos[n].future = [i \in 1..n |-> pushes[i].present]

\* a load, two pushes in a row and two Undos in a row have run: the loaded
\* document is present again, the stack is empty again, and the two
\* documents are in future
C19_Witness ==
    /\ events = 5
    /\ lastAction.type = "UNDO"
    /\ prevType = "UNDO"
    /\ state.past = <<>>
    /\ Len(state.present.elems) > 0
    /\ Len(state.future) = 2
    /\ state.future[1] # state.future[2]

\* C20: Undo and Redo leave selectedShapeId as it was, whatever it holds: an
\* id, the empty string, or no selection.
C20_UndoRedoKeepSelection ==
    [][lastAction'.type \in {"UNDO", "REDO"}
       => state'.selectedShapeId = state.selectedShapeId]_vars

\* C21: while the command most recently dispatched is the load of the
\* current design (no edit, Undo or Redo has followed the load), an Undo or
\* a Redo leaves the document stored under the current name as it is: the
\* document that was loaded.
C21_UndoRedoStayInDesign ==
    [][(/\ lastAction.type = "LOAD_SHAPES"
        /\ currentDesignName # ""
        /\ (undo \/ redo))
       => /\ ObjectGet(ParseDesigns(storage), currentDesignName) = lastAction.payload
          /\ ObjectGet(ParseDesigns(storage'), currentDesignName) = lastAction.payload]_vars

\* the handlers that dispatch Add, Update, Delete, Undo or Redo
EditCommand ==
    \/ \E type \in ShapeTypes, elapsed \in Elapsed : addShape(type, elapsed)
    \/ \E i \in Shapes, d \in DragStops : onDragStop(i, d)
    \/ \E i \in Shapes, r \in ResizeStops : onResizeStop(i, r)
    \/ \E i \in Shapes : deleteClick(i)
    \/ undo
    \/ redo

\* C22: createNewDesign (Clear and the reset of the current name) leaves
\* localStorage as it is, and so does every Add, Update, Delete, Undo and
\* Redo made while no design name is current.
C22_NewDesignLeavesStorage ==
    [][/\ createNewDesign => storage' = storage
       /\ (currentDesignName = "" /\ EditCommand) => storage' = storage]_vars

\* a design with shapes is stored, a new design has been started and a shape
\* has been added to it: the stored design is not the present
C22_Witness ==
    /\ phase = "ready"
    /\ currentDesignName = ""
    /\ lastAction.type = "ADD_SHAPE"
    /\ prevType = "CLEAR_SHAPES"
    /\ \E i \in 1..Len(ParseDesigns(storage)) :
          /\ Len(ParseDesigns(storage)[i].shapes.elems) > 0
          /\ ParseDesigns(storage)[i].shapes # state.present

\* C23: when the single-document editor starts with a document stored under
\* "shapes", then after its mount (the load effect, the persist effect of
\* the empty first present, the persist effect after the load) present is
\* that document, the stored document is still that document, past and
\* future are empty, and the editor is up.
C23_ReloadKeepsDesign ==
    [][(Mount /\ editor = "single" /\ storage.shapes.tag # "null")
       => /\ state'.present = storage.shapes
          /\ storage'.shapes = storage.shapes
          /\ state'.past = <<>>
          /\ state'.future = <<>>
          /\ phase' = "ready"]_vars

\* the single-document editor has just started on a stored document of two
\* shapes
C23_Witness ==
    /\ editor = "single"
    /\ phase = "ready"
    /\ lastAction.type = "LOAD_SHAPES"
    /\ Len(lastAction.payload.elems) = 2
    /\ state.present = lastAction.payload
    /\ storage.shapes = state.present
    /\ state.past = <<>>

====
